---- MODULE Spec2Model ----
(***************************************************************************)
(* Model of csp_solver.py: solve (backtracking search over filtered        *)
(* domains), node_consistency and arc_consistency (AC-3 worklist).         *)
(*                                                                         *)
(* Python objects that are mutated in place (sets of datetimes) live in a  *)
(* heap and are named by references, so that two variables holding the     *)
(* same set object can be told from two variables holding equal sets.      *)
(* Datetimes are the integers 1..MaxDate; None is 0.  Meeting indexes are  *)
(* 0..n-1 as in the source.                                                *)
(***************************************************************************)
EXTENDS Integers, Sequences, FiniteSets, TLC

\* ------------------------------------------------------------------ bounds
MaxN == 2
MaxDate == 2
MaxCons == 2

None == 0
Dates == 1..MaxDate

VARIABLES
    n,             \* n_meetings / len(domains)
    constraints,   \* the set of DateConstraints
    heap,          \* sequence of objects; a reference is an index into it
    date_range,    \* reference of the caller's date_range argument (solve)
    doms,          \* doms / domains: index -> reference of that variable's domain
    dom_copy,      \* node_consistency's dom_copy: index -> reference
    current_index, \* node_consistency's loop index
    arcs,          \* arc_consistency's worklist
    current_arc,   \* the arc popped last, as a set of at most one arc
    assignments,   \* the Assignment vector of the search
    stack,         \* frames of recursive_csp_backtracker that are in their value loop
    result,        \* what solve returned
    pc,            \* position in the program
    plan,          \* the calls still to be made after the current one returns
    err,           \* the exception that ended the run, "" if none
    orig           \* the candidate values each variable had when the run began

vars == <<n, constraints, heap, date_range, doms, dom_copy, current_index, arcs,
          current_arc, assignments, stack, result, pc, plan, err, orig>>

\* --------------------------------------------------- DateConstraint (collaborator)
InputUnaryOps == {"==", "!=", ">"}
InputBinaryOps == {"==", "!=", "<"}

OpHolds(op, a, b) ==
    CASE op = "==" -> a = b
      [] op = "!=" -> a # b
      [] op = "<"  -> a < b
      [] op = ">"  -> a > b
      [] op = "<=" -> a <= b
      [] op = ">=" -> a >= b

ReverseOp(op) ==
    CASE op = "==" -> "=="
      [] op = "!=" -> "!="
      [] op = "<"  -> ">"
      [] op = ">"  -> "<"
      [] op = "<=" -> ">="
      [] op = ">=" -> "<="

arity(c) == c.ARITY

\* is_satisfied_by_values(left) for a unary constraint
is_satisfied_by_value(c, left) == OpHolds(c.OP, left, c.R_VAL)

\* is_satisfied_by_values(left, right) for a binary constraint
is_satisfied_by_values(c, left, right) == OpHolds(c.OP, left, right)

\* unassigned referenced slots satisfy the constraint
is_satisfied_by_assignment(c, a) ==
    IF arity(c) = 1
    THEN a[c.L_VAL] = None \/ OpHolds(c.OP, a[c.L_VAL], c.R_VAL)
    ELSE a[c.L_VAL] = None \/ a[c.R_VAL] = None
         \/ OpHolds(c.OP, a[c.L_VAL], a[c.R_VAL])

get_reverse(c) ==
    [L_VAL |-> c.R_VAL, OP |-> ReverseOp(c.OP), R_VAL |-> c.L_VAL, ARITY |-> 2]

UnaryConstraints(k) ==
    {[L_VAL |-> l, OP |-> o, R_VAL |-> d, ARITY |-> 1] :
        l \in 0..(k-1), o \in InputUnaryOps, d \in Dates}

BinaryConstraints(k) ==
    {[L_VAL |-> p[1], OP |-> o, R_VAL |-> p[2], ARITY |-> 2] :
        p \in {q \in (0..(k-1)) \X (0..(k-1)) : q[1] # q[2]}, o \in InputBinaryOps}

RECURSIVE SetsUpTo(_, _)
SetsUpTo(U, k) ==
    IF k = 0 THEN {{}}
    ELSE LET P == SetsUpTo(U, k-1) IN P \cup {s \cup {c} : s \in P, c \in U}

ConstraintSets(k) == SetsUpTo(UnaryConstraints(k) \cup BinaryConstraints(k), MaxCons)

\* ------------------------------------------------------------------- heap
SetObj(S) == [kind |-> "set", vals |-> S, items |-> <<>>]
ListObj(L) == [kind |-> "list", vals |-> {}, items |-> L]

\* the value set of the domain variable i currently refers to
Dom(i) == IF doms[i] = None THEN {} ELSE heap[doms[i]].vals

Vars == 0..(n-1)

\* set(dom) raises TypeError when dom is a non-empty list of (unhashable) sets
SetCopyRaises(obj) == obj.kind = "list" /\ Len(obj.items) > 0

\* set(dom): a new set object with the same elements
SetCopy(obj) == SetObj(obj.vals)

\* ------------------------------------------------------------------ solve
\* doms = [date_range for _ in range(n_meetings)]: every slot holds the
\* reference of the one date_range object
InitialDoms(k, ref) == [i \in 0..(k-1) |-> ref]

\* ------------------------------------------------------- node_consistency
\* the unary constraints on variable idx that reject date
Rejecters(cons, idx, date) ==
    {c \in cons : arity(c) = 1 /\ c.L_VAL = idx /\ ~is_satisfied_by_value(c, date)}

\* current_dom.remove(date) runs once per rejecting constraint; the second
\* remove of the same date raises KeyError
NodeRaises(cons, idx, dom) ==
    \E date \in dom : Cardinality(Rejecters(cons, idx, date)) >= 2

NodeKept(cons, idx, dom) == {date \in dom : Rejecters(cons, idx, date) = {}}

\* the heap after the inner loops of one index ran to completion: removals
\* go to current_dom (the copy), the iterated live dom is left alone
NodePruneLive(h, copyRef, liveRef, cons, idx) ==
    [h EXCEPT ![liveRef] = SetObj(NodeKept(cons, idx, h[liveRef].vals))]

NodePruneBoth(h, copyRef, liveRef, cons, idx) ==
    [h EXCEPT ![copyRef] = SetObj(NodeKept(cons, idx, h[liveRef].vals)),
              ![liveRef] = SetObj(NodeKept(cons, idx, h[liveRef].vals))]

NodePrune(h, copyRef, liveRef, cons, idx) ==
    [h EXCEPT ![copyRef] = SetObj(NodeKept(cons, idx, h[liveRef].vals))]

\* --------------------------------------------------------- arc_consistency
\* isinstance(constraint.R_VAL, int): R_VAL is a meeting index for a binary
\* constraint and a datetime for a unary one
R_VAL_is_int(c) == c.ARITY = 2

\* Arc.__init__ raises ValueError for a constraint whose R_VAL is no int
ArcRaises(c) == ~R_VAL_is_int(c)

Arc(c) == [CONSTRAINT |-> c, TAIL |-> c.L_VAL, HEAD |-> c.R_VAL]

\* the constraints handed to Arc(...) while the worklist is built
ArcInitArgsAll(cons) ==
    cons \cup {get_reverse(c) : c \in {d \in cons : arity(d) > 1}}

ArcInitArgs(cons) ==
    {d \in cons : arity(d) > 1}
    \cup {get_reverse(c) : c \in {d \in cons : arity(d) > 1}}

InitialArcs(cons) == {Arc(c) : c \in ArcInitArgs(cons)}

\* the tail values that keep a supporting head value
ReviseAll(arc, tail_dom, head_dom) ==
    {t \in tail_dom : \A h \in head_dom : is_satisfied_by_values(arc.CONSTRAINT, t, h)}

ReviseSwapped(arc, tail_dom, head_dom) ==
    {h \in head_dom : \E t \in tail_dom : is_satisfied_by_values(arc.CONSTRAINT, t, h)}

ReviseArgsSwapped(arc, tail_dom, head_dom) ==
    {t \in tail_dom : \E h \in head_dom : is_satisfied_by_values(arc.CONSTRAINT, h, t)}

Revise(arc, tail_dom, head_dom) ==
    {t \in tail_dom : \E h \in head_dom : is_satisfied_by_values(arc.CONSTRAINT, t, h)}

\* the constraints handed to Arc(...) after a revision that removed a value
ReaddArgs(cons, popped) == {d \in cons : arity(d) > 1 /\ d.R_VAL = popped.TAIL}

Readded(cons, popped) == {Arc(c) : c \in ReaddArgs(cons, popped)}

\* the worklist after current_arc was popped and revised
NextArcsAlways(worklist, popped, removed, cons) ==
    (worklist \ {popped}) \cup Readded(cons, popped)

NextArcs(worklist, popped, removed, cons) ==
    IF removed
    THEN (worklist \ {popped}) \cup Readded(cons, popped)
    ELSE worklist \ {popped}

\* ------------------------------------------------ recursive_csp_backtracker
Truthy(x) == x # None

Unassigned(a) == {i \in DOMAIN a : ~Truthy(a[i])}

LastUnassigned(a) ==
    CHOOSE i \in Unassigned(a) : \A j \in Unassigned(a) : i >= j

\* assignments.index(None): the lowest index holding None
FirstUnassigned(a) ==
    CHOOSE i \in Unassigned(a) : \A j \in Unassigned(a) : i <= j

KeepSlot(a, v) == a

\* assignments[current_var] = None
ResetSlot(a, v) == [a EXCEPT ![v] = None]

IterateDomainPop(h, ref, dom) == [h EXCEPT ![ref] = SetObj(h[ref].vals \ {dom})]

\* for dom in doms[current_var]: the loop reads the set and leaves it as it is
IterateDomain(h, ref, dom) == h

AllSatisfiedUnaryOnly(cons, a) ==
    \A c \in cons : arity(c) = 1 => is_satisfied_by_assignment(c, a)

AllSatisfied(cons, a) == \A c \in cons : is_satisfied_by_assignment(c, a)

\* ------------------------------------------------------------------- Init
NoRefs(k) == [i \in 0..(k-1) |-> None]
NoAssignments(k) == [i \in 0..(k-1) |-> None]

\* what solve returned: None, or the list of n datetimes
ReturnedNone(k) == [is_none |-> TRUE, value |-> NoAssignments(k)]
ReturnedList(a) == [is_none |-> FALSE, value |-> a]
NoResult(k) == ReturnedNone(k)

\* solve(n_meetings, date_range, constraints) has just been called, with one
\* shared set or with a list of n sets
Init ==
    /\ n \in 1..MaxN
    /\ constraints \in ConstraintSets(n)
    /\ \/ \E S \in SUBSET Dates :
            /\ heap = <<SetObj(S)>>
            /\ orig = [i \in 0..(n-1) |-> S]
       \/ \E L \in [1..n -> SUBSET Dates] :
            /\ heap = <<ListObj(L)>>
            /\ orig = [i \in 0..(n-1) |-> L[i+1]]
    /\ date_range = 1
    /\ doms = NoRefs(n)
    /\ dom_copy = NoRefs(n)
    /\ current_index = 0
    /\ arcs = {}
    /\ current_arc = {}
    /\ assignments = NoAssignments(n)
    /\ stack = <<>>
    /\ result = NoResult(n)
    /\ pc = "solve"
    /\ plan = <<"arc_consistency", "search">>
    /\ err = ""

\* node_consistency and arc_consistency called directly on a list of n
\* separate set objects, each of them twice in a row
FilterInit ==
    /\ n \in 1..MaxN
    /\ constraints \in ConstraintSets(n)
    /\ \E L \in [1..n -> SUBSET Dates] :
          /\ heap = [k \in 1..n |-> SetObj(L[k])]
          /\ orig = [i \in 0..(n-1) |-> L[i+1]]
    /\ date_range = None
    /\ doms = [i \in 0..(n-1) |-> i + 1]
    /\ dom_copy = NoRefs(n)
    /\ current_index = 0
    /\ arcs = {}
    /\ current_arc = {}
    /\ assignments = NoAssignments(n)
    /\ stack = <<>>
    /\ result = NoResult(n)
    /\ pc = "node_consistency"
    /\ plan = <<"node_consistency", "arc_consistency", "arc_consistency">>
    /\ err = ""

\* the Arc class and arc_consistency used directly: either Arc(c) is called
\* for the constraints of a set, or arc_consistency runs once on a list of
\* n separate set objects
ArcSpecInit ==
    /\ n \in 1..MaxN
    /\ constraints \in ConstraintSets(n)
    /\ \/ /\ pc = "arc_construct"
          /\ constraints # {}
          /\ heap = [k \in 1..n |-> SetObj({})]
          /\ orig = [i \in 0..(n-1) |-> {}]
       \/ /\ pc = "arc_consistency"
          /\ \E L \in [1..n -> SUBSET Dates] :
                /\ heap = [k \in 1..n |-> SetObj(L[k])]
                /\ orig = [i \in 0..(n-1) |-> L[i+1]]
    /\ date_range = None
    /\ doms = [i \in 0..(n-1) |-> i + 1]
    /\ dom_copy = NoRefs(n)
    /\ current_index = 0
    /\ arcs = {}
    /\ current_arc = {}
    /\ assignments = NoAssignments(n)
    /\ stack = <<>>
    /\ result = NoResult(n)
    /\ plan = <<>>
    /\ err = ""

\* the position the program continues at when the current call returns
ReturnTo(p) == IF p = <<>> THEN "done" ELSE Head(p)
Rest(p) == IF p = <<>> THEN <<>> ELSE Tail(p)

\* ---------------------------------------------------------------- actions
\* csp_backtracker, line 67, then the call of node_consistency
BuildDoms ==
    /\ pc = "solve"
    /\ doms' = InitialDoms(n, date_range)
    /\ pc' = "node_consistency"
    /\ UNCHANGED <<n, constraints, heap, date_range, dom_copy, current_index, arcs, current_arc,
                   assignments, stack, result, plan, err, orig>>

\* node_consistency, line 143: dom_copy = [set(dom) for dom in domains]
NodeCopy ==
    /\ pc = "node_consistency"
    /\ IF \E i \in Vars : SetCopyRaises(heap[doms[i]])
       THEN /\ pc' = "error"
            /\ err' = "TypeError"
            /\ UNCHANGED <<heap, dom_copy, current_index>>
       ELSE /\ heap' = heap \o [k \in 1..n |-> SetCopy(heap[doms[k-1]])]
            /\ dom_copy' = [i \in Vars |-> Len(heap) + i + 1]
            /\ current_index' = 0
            /\ pc' = "node_loop"
            /\ err' = err
    /\ UNCHANGED <<n, constraints, date_range, doms, arcs, current_arc, assignments, stack,
                   result, plan, orig>>

\* node_consistency, lines 145-154: one iteration of the loop over domains
NodeStep ==
    /\ pc = "node_loop"
    /\ current_index < n
    /\ LET live == doms[current_index]
           copy == dom_copy[current_index]
           dom == heap[live].vals
       IN IF NodeRaises(constraints, current_index, dom)
          THEN \* the dates visited before the raising one were pruned
               \E bad \in {d \in dom : Cardinality(Rejecters(constraints, current_index, d)) >= 2} :
               \E seen \in SUBSET {d \in dom : Cardinality(Rejecters(constraints, current_index, d)) < 2} :
                  /\ heap' = [heap EXCEPT ![copy] =
                                SetObj(heap[copy].vals \ ({bad} \cup
                                   {d \in seen : Rejecters(constraints, current_index, d) # {}}))]
                  /\ pc' = "error"
                  /\ err' = "KeyError"
                  /\ UNCHANGED <<doms, current_index>>
          ELSE /\ heap' = NodePrune(heap, copy, live, constraints, current_index)
               /\ doms' = [doms EXCEPT ![current_index] = copy]
               /\ current_index' = current_index + 1
               /\ UNCHANGED <<pc, err>>
    /\ UNCHANGED <<n, constraints, date_range, dom_copy, arcs, current_arc, assignments, stack,
                   result, plan, orig>>

\* node_consistency returns
NodeReturn ==
    /\ pc = "node_loop"
    /\ current_index = n
    /\ pc' = ReturnTo(plan)
    /\ plan' = Rest(plan)
    /\ UNCHANGED <<n, constraints, heap, date_range, doms, dom_copy, current_index,
                   arcs, current_arc, assignments, stack, result, err, orig>>

\* ac_preprocessing, lines 249-255
ArcInit ==
    /\ pc = "arc_consistency"
    /\ IF \E c \in ArcInitArgs(constraints) : ArcRaises(c)
       THEN /\ pc' = "error"
            /\ err' = "ValueError"
            /\ arcs' = arcs
       ELSE /\ arcs' = InitialArcs(constraints)
            /\ pc' = "arc_loop"
            /\ err' = err
    /\ current_arc' = current_arc
    /\ UNCHANGED <<n, constraints, heap, date_range, doms, dom_copy, current_index,
                   assignments, stack, result, plan, orig>>

\* ac_preprocessing, lines 258-263: pop one arc, revise, re-add
ArcStep ==
    /\ pc = "arc_loop"
    /\ \E popped \in arcs :
         LET tail_dom == heap[doms[popped.TAIL]].vals
             head_dom == heap[doms[popped.HEAD]].vals
             kept == Revise(popped, tail_dom, head_dom)
             removed == kept # tail_dom
         IN /\ current_arc' = {popped}
            /\ heap' = [heap EXCEPT ![doms[popped.TAIL]] = SetObj(kept)]
            /\ IF removed /\ \E c \in ReaddArgs(constraints, popped) : ArcRaises(c)
               THEN /\ arcs' = arcs \ {popped}
                    /\ pc' = "error"
                    /\ err' = "ValueError"
               ELSE /\ arcs' = NextArcs(arcs, popped, removed, constraints)
                    /\ UNCHANGED <<pc, err>>
    /\ UNCHANGED <<n, constraints, date_range, doms, dom_copy, current_index,
                   assignments, stack, result, plan, orig>>

\* the while loop ends, arc_consistency returns
ArcReturn ==
    /\ pc = "arc_loop"
    /\ arcs = {}
    /\ pc' = ReturnTo(plan)
    /\ plan' = Rest(plan)
    /\ UNCHANGED <<n, constraints, heap, date_range, doms, dom_copy, current_index,
                   arcs, current_arc, assignments, stack, result, err, orig>>

\* Arc(c) called directly, for the constraints of a set one after the other
ArcConstruct ==
    /\ pc = "arc_construct"
    /\ \E c \in constraints :
         /\ constraints' = constraints \ {c}
         /\ IF ArcRaises(c)
            THEN /\ pc' = "error"
                 /\ err' = "ValueError"
                 /\ arcs' = arcs
            ELSE /\ arcs' = arcs \cup {Arc(c)}
                 /\ pc' = IF constraints = {c} THEN "done" ELSE pc
                 /\ err' = err
    /\ UNCHANGED <<n, heap, date_range, doms, dom_copy, current_index, current_arc,
                   assignments, stack, result, plan, orig>>

\* csp_backtracker, lines 70-71
SearchStart ==
    /\ pc = "search"
    /\ assignments' = NoAssignments(n)
    /\ stack' = <<>>
    /\ pc' = "call"
    /\ UNCHANGED <<n, constraints, heap, date_range, doms, dom_copy, current_index,
                   arcs, current_arc, result, plan, err, orig>>

\* recursive_csp_backtracker is entered, lines 91-95 and 110
SearchCall ==
    /\ pc = "call"
    /\ IF Unassigned(assignments) = {}
       THEN \* return assignments; every caller returns it at once (line 107)
            /\ result' = ReturnedList(assignments)
            /\ pc' = "done"
            /\ stack' = <<>>
       ELSE \* entry records the Assignment the call was entered with
            /\ stack' = Append(stack, [current_var |-> FirstUnassigned(assignments),
                                       tried |-> {},
                                       entry |-> assignments])
            /\ pc' = "loop"
            /\ result' = result
    /\ UNCHANGED <<n, constraints, heap, date_range, doms, dom_copy, current_index,
                   arcs, current_arc, assignments, plan, err, orig>>

\* lines 96-105: the next value of the loop over doms[current_var]
SearchTry ==
    /\ pc = "loop"
    /\ LET f == stack[Len(stack)]
       IN \E dom \in Dom(f.current_var) \ f.tried :
            LET a == [assignments EXCEPT ![f.current_var] = dom]
            IN /\ stack' = [stack EXCEPT ![Len(stack)].tried = @ \cup {dom}]
               /\ heap' = IterateDomain(heap, doms[f.current_var], dom)
               /\ IF AllSatisfied(constraints, a)
                  THEN /\ assignments' = a
                       /\ pc' = "call"
                  ELSE /\ assignments' = ResetSlot(a, f.current_var)
                       /\ pc' = "loop"
    /\ UNCHANGED <<n, constraints, date_range, doms, dom_copy, current_index,
                   arcs, current_arc, result, plan, err, orig>>

\* line 109: the value loop is exhausted, the call returns None; its caller
\* resets its own slot (line 108) and goes on with its loop
SearchFail ==
    /\ pc = "loop"
    /\ LET f == stack[Len(stack)]
       IN /\ Dom(f.current_var) \ f.tried = {}
          /\ stack' = SubSeq(stack, 1, Len(stack) - 1)
          /\ IF Len(stack) = 1
             THEN /\ result' = ReturnedNone(n)
                  /\ pc' = "done"
                  /\ assignments' = assignments
             ELSE /\ assignments' =
                        ResetSlot(assignments, stack[Len(stack) - 1].current_var)
                  /\ UNCHANGED <<result, pc>>
    /\ UNCHANGED <<n, constraints, heap, date_range, doms, dom_copy, current_index,
                   arcs, current_arc, plan, err, orig>>

Next ==
    \/ BuildDoms
    \/ NodeCopy
    \/ NodeStep
    \/ NodeReturn
    \/ ArcInit
    \/ ArcStep
    \/ ArcReturn
    \/ SearchStart
    \/ SearchCall
    \/ SearchTry
    \/ SearchFail

Spec == Init /\ [][Next]_vars

FilterNext ==
    \/ NodeCopy
    \/ NodeStep
    \/ NodeReturn
    \/ ArcInit
    \/ ArcStep
    \/ ArcReturn

FilterSpec == FilterInit /\ [][FilterNext]_vars

ArcNext ==
    \/ ArcConstruct
    \/ ArcInit
    \/ ArcStep
    \/ ArcReturn

ArcSpec == ArcSpecInit /\ [][ArcNext]_vars

\* the program is sequential and runs without interruption: a step that is
\* possible is eventually taken
FairArcSpec == ArcSpecInit /\ [][ArcNext]_vars /\ WF_vars(ArcNext)

\* ------------------------------------------------------------ properties
Shared == date_range # None /\ heap[date_range].kind = "set"
Listed == date_range # None /\ heap[date_range].kind = "list"

Filled(a) == \A i \in DOMAIN a : a[i] # None

\* the full assignments over the candidate sets D that satisfy every constraint
Solutions(D) ==
    {a \in [Vars -> Dates] :
        /\ \A i \in Vars : a[i] \in D[i]
        /\ \A c \in constraints : is_satisfied_by_assignment(c, a)}

CurrentDoms == [i \in Vars |-> Dom(i)]

Returned == pc = "done" /\ ~result.is_none

InNode == pc \in {"node_consistency", "node_loop"}
InArc == pc \in {"arc_consistency", "arc_loop"}
InSearch == pc \in {"call", "loop"}

\* the arc's tail domain is supported by its head domain
ArcSupported(arc) ==
    \A t \in Dom(arc.TAIL) : \E h \in Dom(arc.HEAD) :
        is_satisfied_by_values(arc.CONSTRAINT, t, h)

\* C1: an assignment returned by solve has all n slots filled and satisfies
\* every constraint under is_satisfied_by_assignment.
C1_Soundness ==
    Returned =>
        /\ DOMAIN result.value = Vars
        /\ Filled(result.value)
        /\ \A c \in constraints : is_satisfied_by_assignment(c, result.value)

C1_Witness ==
    /\ Returned
    /\ n = 2
    /\ \E c \in constraints : arity(c) = 2 /\ c.OP = "!="
    /\ Cardinality(Dom(0)) = 2 /\ Cardinality(Dom(1)) = 2

\* C2: when some assignment over the original candidate sets satisfies all
\* constraints, solve ends by returning a satisfying assignment, not None
\* and not an error.
C2_Completeness ==
    (pc \in {"done", "error"} /\ Solutions(orig) # {}) =>
        (Returned /\ result.value \in Solutions(orig))

\* C3: when arc_consistency's worklist is empty, every arc of every binary
\* constraint, forward and reverse, has its tail domain supported by its
\* head domain.
C3_ArcConsistentAtEnd ==
    (pc = "arc_loop" /\ arcs = {}) =>
        \A c \in constraints : arity(c) > 1 =>
            ArcSupported(Arc(c)) /\ ArcSupported(Arc(get_reverse(c)))

\* C4: node_consistency completes without error and leaves each domain v
\* equal to the input values that satisfy every unary constraint on v.
C4_NodeConsistencyExact ==
    /\ err # "KeyError"
    /\ (pc = "node_loop" /\ current_index = n /\ Len(plan) = 3) =>
          \A v \in Vars :
             Dom(v) = {d \in orig[v] :
                         \A c \in constraints :
                            (arity(c) = 1 /\ c.L_VAL = v) => is_satisfied_by_value(c, d)}

\* C5: on an unsatisfiable problem solve ends by returning None, never by
\* raising.
C5_UnsatReturnsNone ==
    (pc \in {"done", "error"} /\ Solutions(orig) = {}) =>
        (pc = "done" /\ result.is_none)

\* C6: if filtering left some domain empty, the search makes no tentative
\* assignment and solve returns None.
C6_EarlyFailure ==
    ((InSearch \/ pc = "done") /\ \E i \in Vars : Dom(i) = {}) =>
        /\ \A j \in Vars : assignments[j] = None
        /\ pc = "done" => result.is_none

\* C7: with one shared candidate set, a filtering step that removes values
\* from variable i's domain (node_consistency's iteration for index i, the
\* revision of an arc whose tail is i) leaves the domain of every other
\* variable as it was.
C7_DomainsIndependent ==
    [][Shared =>
          /\ InNode => \A j \in Vars \ {current_index} : Dom(j)' = Dom(j)
          /\ pc = "arc_loop" =>
                \A a \in current_arc' : \A j \in Vars \ {a.TAIL} : Dom(j)' = Dom(j)]_vars

C7_Witness ==
    /\ Shared
    /\ n = 2
    /\ pc = "node_loop" /\ current_index = 1
    /\ Dom(0) # orig[0]
    /\ Dom(1) = orig[1]

\* C8: with n individually specified candidate sets, variable i's domain
\* before filtering is the i-th set, solve completes, and a returned
\* assignment holds at index i a member of the i-th set.
C8_ListedDomains ==
    Listed =>
        /\ pc # "error"
        /\ pc = "node_consistency" =>
              \A i \in Vars : heap[doms[i]] = SetObj(orig[i])
        /\ Returned => \A i \in Vars : result.value[i] \in orig[i]

\* C9: a second run of node_consistency, and a second run of
\* arc_consistency, on the domains the first run left removes no value.
SecondNode == InNode /\ Len(plan) = 2
SecondArc == InArc /\ Len(plan) = 0

C9_FilteringIdempotent ==
    [][(SecondNode \/ SecondArc) => \A i \in Vars : Dom(i)' = Dom(i)]_vars

\* C10: the satisfying full assignments over the domains are the same
\* before and after every filtering step: no removed value takes part in
\* a solution.
C10_PruningSound == Solutions(CurrentDoms) = Solutions(orig)

C10_Witness ==
    /\ pc = "arc_loop" /\ arcs = {} /\ Len(plan) = 1
    /\ n = 2
    /\ Solutions(orig) # {}
    /\ \E c \in constraints : arity(c) = 1
    /\ \E c \in constraints : arity(c) = 2
    /\ Dom(0) # orig[0]
    /\ Dom(1) # orig[1]

\* C11: the caller's shared candidate set holds exactly its original values
\* in every state of solve, in particular after solve has returned.
C11_CallerSetUntouched ==
    Shared => heap[date_range] = SetObj(orig[0])

C11_Witness ==
    /\ Shared
    /\ pc = "done"
    /\ \E i \in Vars : Dom(i) # orig[i]
    /\ \E c \in constraints : arity(c) = 1
    /\ \E c \in constraints : arity(c) = 2

\* C12: every step of node_consistency and of arc_consistency leaves each
\* domain a subset of what it was, hence a subset of the input domain.
C12_FilteringMonotone ==
    [][(InNode \/ InArc) =>
          \A i \in Vars : Dom(i)' \subseteq Dom(i) /\ Dom(i)' \subseteq orig[i]]_vars

C12_Witness ==
    /\ pc = "arc_loop" /\ Len(plan) = 1
    /\ n = 2
    /\ \E a \in current_arc : Dom(a.TAIL) # orig[a.TAIL] /\ Dom(a.HEAD) = orig[a.HEAD]
    /\ constraints \subseteq BinaryConstraints(n)

\* C13: Arc(c) for a unary constraint raises at once and yields no Arc;
\* arc_consistency, which builds arcs from constraints of arity > 1 only,
\* never raises, whatever unary constraints the set contains.
C13_ArcFromUnaryFails ==
    [][/\ pc = "arc_construct" =>
            \A c \in constraints \ constraints' :
               IF arity(c) = 1
               THEN pc' = "error" /\ err' = "ValueError" /\ arcs' = arcs
               ELSE pc' # "error" /\ Arc(c) \in arcs'
       /\ InArc => pc' # "error" /\ err' = ""]_vars

C13_Witness ==
    /\ pc = "done"
    /\ current_arc # {}
    /\ \E c \in constraints : arity(c) = 1
    /\ err = ""

\* C14: right after a revision that removed a value from the tail variable
\* v, the worklist holds every arc whose head is v, forward or reverse.
C14_ArcsIntoTailRequeued ==
    [][pc = "arc_loop" =>
          \A a \in current_arc' :
             Dom(a.TAIL)' # Dom(a.TAIL) =>
                \A b \in InitialArcs(constraints) : b.HEAD = a.TAIL => b \in arcs']_vars

\* C15: a call of the recursive search that returns failure leaves the
\* Assignment as it was when the call was entered; when solve returns None
\* every slot is unassigned.
C15_FailureRestoresAssignment ==
    /\ pc = "loop" => assignments = stack[Len(stack)].entry
    /\ (pc = "done" /\ result.is_none) => assignments = NoAssignments(n)

C15_Witness ==
    /\ pc = "loop"
    /\ Len(stack) = 2
    /\ stack[2].tried # {}
    /\ Dom(stack[2].current_var) \ stack[2].tried = {}
    /\ Cardinality(stack[1].tried) = 2

\* C16: during the search the assigned slots are a prefix 0..k-1 of the
\* indexes, each call works on variable k, and every Assignment the search
\* recurses on satisfies all constraints.
C16_PrefixOrder ==
    InSearch =>
        /\ \E k \in 0..n : Unassigned(assignments) = k..(n-1)
        /\ \A d \in 1..Len(stack) :
              /\ stack[d].current_var = d - 1
              /\ Unassigned(stack[d].entry) = (d-1)..(n-1)
        /\ pc = "call" =>
              \A c \in constraints : is_satisfied_by_assignment(c, assignments)

C16_Witness ==
    /\ pc = "call"
    /\ n = 2
    /\ assignments[0] # None /\ assignments[1] = None
    /\ Len(stack) = 1
    /\ \E c \in constraints : arity(c) = 2

\* C18: from the end of arc_consistency until solve returns no step adds a
\* value to or removes a value from any domain.
C18_DomainsReadOnlyInSearch ==
    [][(pc = "search" \/ InSearch) =>
          /\ doms' = doms
          /\ \A i \in Vars : heap'[doms[i]] = heap[doms[i]]]_vars

C18_Witness ==
    /\ pc = "loop"
    /\ Len(stack) = 2
    /\ assignments[0] # None
    /\ \E i \in Vars : Dom(i) # orig[i] /\ Dom(i) # {}

\* C17: arc_consistency terminates: once started, its worklist is eventually
\* empty; an arc that was not in the worklist enters it only in a step
\* whose revision strictly shrank the tail domain.
C17_ArcConsistencyTerminates ==
    /\ (pc = "arc_consistency") ~> (pc = "arc_loop" /\ arcs = {})
    /\ [][(pc = "arc_loop" /\ ~(arcs' \subseteq arcs)) =>
             \E a \in current_arc' :
                Dom(a.TAIL)' \subseteq Dom(a.TAIL) /\ Dom(a.TAIL)' # Dom(a.TAIL)]_vars

C17_Witness ==
    /\ pc = "arc_loop" /\ arcs = {}
    /\ Cardinality({c \in constraints : arity(c) = 2}) = 2
    /\ \A i \in Vars : Dom(i) # orig[i]

\* C19: whether solve returns an assignment or None does not depend on the
\* order in which arcs are popped: in every run, whatever the order, solve
\* returns None exactly when the inputs have no solution, and a run that
\* ends in an exception ended before any arc was popped.
C19_ArcOrderIrrelevant ==
    /\ pc = "done" => (result.is_none <=> Solutions(orig) = {})
    /\ pc = "error" => (arcs = {} /\ current_arc = {})

C19_Witness ==
    /\ Returned
    /\ Cardinality({c \in constraints : arity(c) = 2}) = 2
    /\ current_arc # {}
    /\ \E i \in Vars : Dom(i) # orig[i]

====
